---- MODULE Spec2Model ----
(***************************************************************************)
(* Model of the training orchestrator peer_main/main.py: several worker    *)
(* processes run main() side by side.  Every process trains; the process   *)
(* that passes the test `local_rank == 0` also validates, reports, plots   *)
(* and writes checkpoints.                                                 *)
(***************************************************************************)
EXTENDS Integers, Sequences, FiniteSets, TLC

\* ---------------------------------------------------------------- bounds
MaxWorld == 2        \* largest number of processes (nnodes * nproc_per_node)
MaxEpochs == 2       \* largest --num-epochs
MaxTrain == 2        \* largest len(train_dataset)
MaxBatch == 2        \* largest --batch-size
MaxLoss == 1         \* largest finite validation loss
MaxSeed == 1         \* the unseeded RNG of a process draws one of 0..MaxSeed

VARIABLES
    nnodes,          \* number of nodes of the launch
    nproc_per_node,  \* processes per node; LOCAL_RANK ranges over 0..nproc_per_node-1
    num_epochs,      \* int(args.num_epochs)
    batch_size,      \* int(args.batch_size)
    train_size,      \* len(train_dataset)
    randperm,        \* randperm[e+1]: the sampler's permutation for set_epoch(e), << >> until drawn
    pc,              \* pc[p]: position of process p in main()
    epoch,           \* epoch[p]: loop variable of process p
    sampler_epoch,   \* train_sampler.epoch of process p
    shard,           \* indices the train loader of p iterates in this pass
    batch,           \* number of batches of this pass p has finished
    model,           \* model[p]: parameters held by process p
    val_loss,        \* val_loss of the latest validate() of p
    best_val_loss,   \* best_val_loss of p
    train_batch_losses, \* epoch of the train() call whose batch losses p holds, -1 if none
    val_batch_losses,   \* epoch of the validate() call whose batch losses p holds, -1 if none
    trace            \* trace[p]: what p has done so far, in order

vars == <<nnodes, nproc_per_node, num_epochs, batch_size, train_size, randperm,
          pc, epoch, sampler_epoch, shard, batch, model, val_loss,
          best_val_loss, train_batch_losses, val_batch_losses, trace>>

losses == <<train_batch_losses, val_batch_losses>>

config == <<nnodes, nproc_per_node, num_epochs, batch_size, train_size, randperm>>

\* ------------------------------------------------------------- processes
\* Processes are named by their global rank.
WorldSize == nnodes * nproc_per_node

Procs == 0 .. (WorldSize - 1)

\* LOCAL_RANK of the process with global rank p (rank within its node).
LocalRank(p) == p % nproc_per_node

\* The coordinator test of main(): `if local_rank == 0`.
IsCoordinator(p) == LocalRank(p) = 0

\* float('inf'): above every finite loss.
Inf == MaxLoss + 1

LossValues == 0 .. Inf

\* the comparison written with <= : an equal loss counts as an improvement
ImprovedOrEqual(v, best) == v <= best

\* `val_loss < best_val_loss`
Improved(v, best) == v < best

\* the plot named after the 0-based loop variable
PlotNumberZeroBased(e) == e

\* f'epoch_{epoch+1}_losses.png': the number in the plot's file name.
PlotNumber(e) == e + 1

\* a loop that stops one iteration early
LoopContinuesShort(e, n) == e < n - 1

\* `for epoch in range(num_epochs)`: whether iteration e runs
LoopContinues(e, n) == e < n

\* a sampler that is seeded with the same epoch every time
SetEpochArgConstant(e) == 0

\* the argument of train_sampler.set_epoch(epoch)
SetEpochArg(e) == e

\* ----------------------------------------------------- sampler and loader
Ceil(a, b) == (a + b - 1) \div b

\* all orders of the examples 0..n-1
Perms(n) == { f \in [1 .. n -> 0 .. (n - 1)] : \A i, j \in 1 .. n : f[i] = f[j] => i = j }

\* DistributedSampler.num_samples with drop_last=False
NumSamples(n, w) == Ceil(n, w)

\* the permuted index list padded to total_size by repeating it from its head;
\* pos is a 0-based position
PaddedAt(perm, n, pos) == perm[(pos % n) + 1]

\* a sampler that does not pad: perm[rank::w], so the shard sizes depend on the rank
SamplerIndicesUnpadded(perm, n, w, rank) ==
    [k \in 1 .. (IF rank < n THEN Ceil(n - rank, w) ELSE 0) |-> perm[rank + (k - 1) * w + 1]]

\* a sampler that slices from position 0 whatever the rank
SamplerIndicesIgnoreRank(perm, n, w, rank) ==
    [k \in 1 .. NumSamples(n, w) |-> PaddedAt(perm, n, (k - 1) * w)]

\* DistributedSampler.__iter__: indices[rank:total_size:num_replicas]
SamplerIndices(perm, n, w, rank) ==
    [k \in 1 .. NumSamples(n, w) |-> PaddedAt(perm, n, rank + (k - 1) * w)]

\* len(DataLoader) with drop_last=False
LoaderLen(s, b) == Ceil(Len(s), b)

\* ------------------------------------------------------------------ trace
NoModel == [init |-> 0, steps |-> 0]

Ev(kind, e, n, s, m) == [ev |-> kind, epoch |-> e, n |-> n, shard |-> s, model |-> m]

Log(p, events) == [trace EXCEPT ![p] = @ \o events]

\* ------------------------------------------------------------------- init
Topologies == { t \in (1 .. MaxWorld) \X (1 .. MaxWorld) : t[1] * t[2] <= MaxWorld }

Init ==
    /\ \E t \in Topologies : nnodes = t[1] /\ nproc_per_node = t[2]
    /\ num_epochs \in 0 .. MaxEpochs
    /\ batch_size \in 1 .. MaxBatch
    /\ train_size \in 1 .. MaxTrain
    /\ randperm = [e \in 1 .. num_epochs |-> << >>]
    /\ pc = [p \in Procs |-> "loop"]
    /\ epoch = [p \in Procs |-> 0]
    /\ sampler_epoch = [p \in Procs |-> 0]
    /\ shard = [p \in Procs |-> << >>]
    /\ batch = [p \in Procs |-> 0]
    /\ model \in [Procs -> [init : 0 .. MaxSeed, steps : {0}]]
    /\ val_loss = [p \in Procs |-> Inf]
    /\ best_val_loss = [p \in Procs |-> Inf]
    /\ train_batch_losses = [p \in Procs |-> -1]
    /\ val_batch_losses = [p \in Procs |-> -1]
    /\ trace = [p \in Procs |-> << >>]

\* ---------------------------------------------------------------- actions
\* torch.randperm(len(dataset)) under the generator seeded with seed + epoch:
\* one fixed order per epoch, the same in every process.  The order is drawn
\* when the first process asks for it and read by the others.
Shuffle(e, perm) ==
    /\ perm \in Perms(train_size)
    /\ randperm[e + 1] \in {<< >>, perm}
    /\ randperm' = [randperm EXCEPT ![e + 1] = perm]

\* for epoch in range(num_epochs): set_epoch, the coordinator's print, and the
\* call of train(), whose loop over the loader asks the sampler for its indices.
BeginEpoch(p) ==
    /\ pc[p] = "loop"
    /\ LoopContinues(epoch[p], num_epochs)
    /\ sampler_epoch' = [sampler_epoch EXCEPT ![p] = SetEpochArg(epoch[p])]
    /\ \E perm \in Perms(train_size) :
          /\ Shuffle(sampler_epoch'[p], perm)
          /\ shard' = [shard EXCEPT ![p] = SamplerIndices(perm, train_size, WorldSize, p)]
    /\ batch' = [batch EXCEPT ![p] = 0]
    /\ pc' = [pc EXCEPT ![p] = "train"]
    /\ trace' = Log(p, <<Ev("set_epoch", epoch[p], sampler_epoch'[p], << >>, NoModel)>>
                       \o (IF IsCoordinator(p)
                           THEN <<Ev("print_training", epoch[p], epoch[p] + 1, << >>, NoModel)>>
                           ELSE << >>)
                       \o <<Ev("train", epoch[p], 0, shard'[p], model[p])>>)
    /\ UNCHANGED <<nnodes, nproc_per_node, num_epochs, batch_size, train_size,
                   epoch, model, val_loss, best_val_loss, losses>>

\* train(): forward and backward pass of the next batch; the process then
\* waits in the gradient all-reduce.
TrainBatch(p) ==
    /\ pc[p] = "train"
    /\ batch[p] < LoaderLen(shard[p], batch_size)
    /\ pc' = [pc EXCEPT ![p] = "allreduce"]
    /\ UNCHANGED <<config, epoch, sampler_epoch, shard, batch, model, val_loss,
                   best_val_loss, trace, losses>>

\* The gradient all-reduce completes once every process has arrived at it;
\* every process then applies the same reduced gradient to its parameters.
AllReduce ==
    /\ \A q \in Procs : pc[q] = "allreduce"
    /\ model' = [q \in Procs |-> [model[q] EXCEPT !.steps = @ + 1]]
    /\ batch' = [q \in Procs |-> batch[q] + 1]
    /\ pc' = [q \in Procs |-> "train"]
    /\ trace' = [q \in Procs |->
                    Append(trace[q], Ev("step", epoch[q], batch[q] + 1, << >>, NoModel))]
    /\ UNCHANGED <<config, epoch, sampler_epoch, shard, val_loss, best_val_loss, losses>>

\* a loop body that plots before it validates: the plot and the comparison
\* see the validation results of the epoch before
TrainReturnPlotFirst(p) ==
    /\ pc[p] = "train"
    /\ batch[p] = LoaderLen(shard[p], batch_size)
    /\ IF IsCoordinator(p)
       THEN /\ pc' = [pc EXCEPT ![p] = "plot"]
            /\ trace' = Log(p, <<Ev("train_end", epoch[p], batch[p], << >>, NoModel)>>)
            /\ UNCHANGED epoch
       ELSE /\ pc' = [pc EXCEPT ![p] = "loop"]
            /\ trace' = Log(p, <<Ev("train_end", epoch[p], batch[p], << >>, NoModel)>>)
            /\ epoch' = [epoch EXCEPT ![p] = @ + 1]
    /\ train_batch_losses' = [train_batch_losses EXCEPT ![p] = epoch[p]]
    /\ UNCHANGED <<config, sampler_epoch, shard, batch, model, val_loss, best_val_loss,
                   val_batch_losses>>

\* train() returns; a process that is not the coordinator goes to the next epoch.
TrainReturn(p) ==
    /\ pc[p] = "train"
    /\ batch[p] = LoaderLen(shard[p], batch_size)
    /\ IF IsCoordinator(p)
       THEN /\ pc' = [pc EXCEPT ![p] = "validate"]
            /\ trace' = Log(p, <<Ev("train_end", epoch[p], batch[p], << >>, NoModel),
                                 Ev("print_validation", epoch[p], epoch[p] + 1, << >>, NoModel)>>)
            /\ UNCHANGED epoch
       ELSE /\ pc' = [pc EXCEPT ![p] = "loop"]
            /\ trace' = Log(p, <<Ev("train_end", epoch[p], batch[p], << >>, NoModel)>>)
            /\ epoch' = [epoch EXCEPT ![p] = @ + 1]
    /\ train_batch_losses' = [train_batch_losses EXCEPT ![p] = epoch[p]]
    /\ UNCHANGED <<config, sampler_epoch, shard, batch, model, val_loss, best_val_loss,
                   val_batch_losses>>

\* an exception swallowed by a handler around the call: the loop carries on
Swallowed(at) == IF at = "validate" THEN "plot" ELSE "train"

\* What an exception raised inside main() does to the process: nothing catches it.
Uncaught(at) == "aborted"

\* train() raises.
TrainRaise(p) ==
    /\ pc[p] = "train"
    /\ pc' = [pc EXCEPT ![p] = Uncaught(pc[p])]
    /\ trace' = Log(p, <<Ev("raise", epoch[p], 0, << >>, NoModel)>>)
    /\ UNCHANGED <<config, epoch, sampler_epoch, shard, batch, model, val_loss,
                   best_val_loss, losses>>

\* validate(model, val_loader, device) returns a loss; the epoch summary line
\* is printed.  validate() does not touch the parameters.
Validate(p) ==
    /\ pc[p] = "validate"
    /\ \E v \in LossValues :
          /\ val_loss' = [val_loss EXCEPT ![p] = v]
          /\ trace' = Log(p, <<Ev("validate", epoch[p], v, << >>, model[p]),
                               Ev("print_summary", epoch[p], epoch[p] + 1, << >>, NoModel)>>)
    /\ val_batch_losses' = [val_batch_losses EXCEPT ![p] = epoch[p]]
    /\ pc' = [pc EXCEPT ![p] = "plot"]
    /\ UNCHANGED <<config, epoch, sampler_epoch, shard, batch, model, best_val_loss,
                   train_batch_losses>>

\* validate() raises.
ValidateRaise(p) ==
    /\ pc[p] = "validate"
    /\ pc' = [pc EXCEPT ![p] = Uncaught(pc[p])]
    /\ trace' = Log(p, <<Ev("raise", epoch[p], 0, << >>, NoModel)>>)
    /\ UNCHANGED <<config, epoch, sampler_epoch, shard, batch, model, val_loss,
                   best_val_loss, losses>>

\* plot_losses(train_batch_losses, val_batch_losses, epoch, 'plots'); the event
\* keeps the two loss sequences that were drawn
PlotLosses(p) ==
    /\ pc[p] = "plot"
    /\ trace' = Log(p, <<Ev("plot", epoch[p], PlotNumber(epoch[p]),
                           <<train_batch_losses[p], val_batch_losses[p]>>, NoModel)>>)
    /\ pc' = [pc EXCEPT ![p] = "compare"]
    /\ UNCHANGED <<config, epoch, sampler_epoch, shard, batch, model, val_loss,
                   best_val_loss, losses>>

\* a save that converts the parameters in place before writing them
SaveBestInPlace(p) ==
    /\ pc[p] = "compare"
    /\ IF Improved(val_loss[p], best_val_loss[p])
       THEN /\ best_val_loss' = [best_val_loss EXCEPT ![p] = val_loss[p]]
            /\ model' = [model EXCEPT ![p].init = (@ + 1) % (MaxSeed + 2)]
            /\ trace' = Log(p, <<Ev("save_best", epoch[p], 0, << >>, model'[p])>>)
       ELSE UNCHANGED <<best_val_loss, trace, model>>
    /\ epoch' = [epoch EXCEPT ![p] = @ + 1]
    /\ pc' = [pc EXCEPT ![p] = "loop"]
    /\ UNCHANGED <<config, sampler_epoch, shard, batch, val_loss, losses>>

\* if val_loss < best_val_loss: keep the loss and save the parameters; then
\* the loop goes to the next epoch.
SaveBest(p) ==
    /\ pc[p] = "compare"
    /\ IF Improved(val_loss[p], best_val_loss[p])
       THEN /\ best_val_loss' = [best_val_loss EXCEPT ![p] = val_loss[p]]
            /\ trace' = Log(p, <<Ev("save_best", epoch[p], 0, << >>, model[p])>>)
       ELSE UNCHANGED <<best_val_loss, trace>>
    /\ epoch' = [epoch EXCEPT ![p] = @ + 1]
    /\ pc' = [pc EXCEPT ![p] = "loop"]
    /\ UNCHANGED <<config, sampler_epoch, shard, batch, model, val_loss, losses>>

\* the final save written inside the loop body: it needs an iteration to run
SaveFinalInLoop(p) ==
    /\ pc[p] = "loop"
    /\ ~LoopContinues(epoch[p], num_epochs)
    /\ trace' = Log(p, IF IsCoordinator(p) /\ num_epochs > 0
                       THEN <<Ev("save_final", epoch[p], 0, << >>, model[p])>>
                       ELSE << >>)
    /\ pc' = [pc EXCEPT ![p] = "cleanup"]
    /\ UNCHANGED <<config, epoch, sampler_epoch, shard, batch, model, val_loss,
                   best_val_loss, losses>>

\* The loop is over: the coordinator saves the final parameters.
SaveFinal(p) ==
    /\ pc[p] = "loop"
    /\ ~LoopContinues(epoch[p], num_epochs)
    /\ trace' = Log(p, IF IsCoordinator(p)
                       THEN <<Ev("save_final", epoch[p], 0, << >>, model[p])>>
                       ELSE << >>)
    /\ pc' = [pc EXCEPT ![p] = "cleanup"]
    /\ UNCHANGED <<config, epoch, sampler_epoch, shard, batch, model, val_loss,
                   best_val_loss, losses>>

\* dist.destroy_process_group()
DestroyProcessGroup(p) ==
    /\ pc[p] = "cleanup"
    /\ trace' = Log(p, <<Ev("destroy", epoch[p], 0, << >>, NoModel)>>)
    /\ pc' = [pc EXCEPT ![p] = "done"]
    /\ UNCHANGED <<config, epoch, sampler_epoch, shard, batch, model, val_loss,
                   best_val_loss, losses>>

Next ==
    \/ \E p \in Procs : BeginEpoch(p)
    \/ \E p \in Procs : TrainBatch(p)
    \/ AllReduce
    \/ \E p \in Procs : TrainReturn(p)
    \/ \E p \in Procs : TrainRaise(p)
    \/ \E p \in Procs : Validate(p)
    \/ \E p \in Procs : ValidateRaise(p)
    \/ \E p \in Procs : PlotLosses(p)
    \/ \E p \in Procs : SaveBest(p)
    \/ \E p \in Procs : SaveFinal(p)
    \/ \E p \in Procs : DestroyProcessGroup(p)

Spec == Init /\ [][Next]_vars

\* A run in which no collaborator raises or hangs: the processes are operating
\* system processes that keep running, so a step that stays possible is taken.
NextNoRaise ==
    \/ \E p \in Procs : BeginEpoch(p)
    \/ \E p \in Procs : TrainBatch(p)
    \/ AllReduce
    \/ \E p \in Procs : TrainReturn(p)
    \/ \E p \in Procs : Validate(p)
    \/ \E p \in Procs : PlotLosses(p)
    \/ \E p \in Procs : SaveBest(p)
    \/ \E p \in Procs : SaveFinal(p)
    \/ \E p \in Procs : DestroyProcessGroup(p)

LiveSpec == Init /\ [][NextNoRaise]_vars /\ WF_vars(NextNoRaise)

\* ------------------------------------------------------- reading the trace
Idx(p) == 1 .. Len(trace[p])

Events(p, kind) == { i \in Idx(p) : trace[p][i].ev = kind }

EventsAt(p, kind, e) == { i \in Events(p, kind) : trace[p][i].epoch = e }

ReportKinds == {"validate", "print_summary", "plot", "save_best", "save_final"}

WriteKinds == {"plot", "save_best", "save_final"}

\* the file an event writes: the plot of a number, or one of the two checkpoints
FileOf(ev) == <<ev.ev, ev.n>>

FilesWritten(p) == { FileOf(trace[p][i]) : i \in { j \in Idx(p) : trace[p][j].ev \in WriteKinds } }

Reporters == { p \in Procs : \E i \in Idx(p) : trace[p][i].ev \in ReportKinds }

AllDone == \A p \in Procs : pc[p] = "done"

SetMin(S) == CHOOSE x \in S : \A y \in S : x <= y

IsValidate(ev) == ev.ev = "validate"

\* the validation losses process p has seen, in order
ValHistory(p) == SelectSeq(trace[p], IsValidate)

\* the lowest of +infinity and the first k validation losses
LowestSeen(h, k) == SetMin({Inf} \cup { h[i].n : i \in 1 .. k })

\* ------------------------------------------------------------------ claims
\* C1: at most one process ever validates, logs the summary, plots or writes a
\* checkpoint, exactly one has done so when the run is over, and no two
\* processes write the same plot or checkpoint file.
C1_SingleCoordinator ==
    /\ Cardinality(Reporters) <= 1
    /\ AllDone => Cardinality(Reporters) = 1
    /\ \A p, q \in Procs : p # q => FilesWritten(p) \cap FilesWritten(q) = {}

\* C2, for one coordinator: best_val_loss is the lowest of +infinity and the
\* validation losses of the epochs compared so far, and the best checkpoint has
\* been written once in each epoch whose loss was strictly below the lowest
\* seen before it, and in no other epoch.
C2_State(p) ==
    LET h == ValHistory(p)
    IN  /\ Len(h) \in {epoch[p], epoch[p] + 1}
        /\ best_val_loss[p] = LowestSeen(h, epoch[p])
        /\ \A e \in 0 .. MaxEpochs + 1 :
              Cardinality(EventsAt(p, "save_best", e)) =
                  IF e < epoch[p] /\ h[e + 1].n < LowestSeen(h, e) THEN 1 ELSE 0

\* C2: on every coordinator best_val_loss starts at +infinity, never increases,
\* and it and the best checkpoint change exactly in the epochs whose validation
\* loss is strictly below every earlier one.
C2_BestCheckpoint ==
    [][\A p \in Procs : IsCoordinator(p) =>
          /\ C2_State(p)
          /\ C2_State(p)'
          /\ best_val_loss'[p] <= best_val_loss[p]]_vars

\* a coordinator has compared two epochs and saved the best checkpoint in one
\* of them only
C2_Witness ==
    \E p \in Procs :
        /\ IsCoordinator(p)
        /\ epoch[p] = 2
        /\ Cardinality(Events(p, "save_best")) = 1

\* every write of the final checkpoint, by any process
FinalWrites == UNION { { <<p, i>> : i \in Events(p, "save_final") } : p \in Procs }

\* the events of the epoch loop
LoopKinds == {"set_epoch", "print_training", "train", "step", "train_end",
              "print_validation", "validate", "print_summary", "plot", "save_best"}

\* C3: when the run has finished without exception the final checkpoint has
\* been written exactly once, by a coordinator, after everything the loop did
\* in all num_epochs epochs, whether or not the last epoch was the best.
C3_FinalWrittenOnce ==
    AllDone =>
        /\ Cardinality(FinalWrites) = 1
        /\ \A w \in FinalWrites :
              /\ IsCoordinator(w[1])
              /\ \A e \in 0 .. num_epochs - 1 :
                    /\ EventsAt(w[1], "train_end", e) # {}
                    /\ EventsAt(w[1], "plot", e) # {}
              /\ \A i \in Idx(w[1]) : trace[w[1]][i].ev \in LoopKinds => i < w[2]

\* C4: a coordinator has written exactly one plot numbered e+1 and printed
\* exactly one summary line for every epoch e it has finished, none twice, all
\* of num_epochs once it is past the loop; another process has written no plot;
\* every plot number is in 1..num_epochs.
C4_OnePlotPerEpoch ==
    \A p \in Procs :
        /\ \A i \in Events(p, "plot") : trace[p][i].n \in 1 .. num_epochs
        /\ ~IsCoordinator(p) => Events(p, "plot") = {} /\ Events(p, "print_summary") = {}
        /\ IsCoordinator(p) =>
              /\ pc[p] \in {"cleanup", "done"} => epoch[p] = num_epochs
              /\ \A e \in 0 .. MaxEpochs + 1 :
                    LET plots == { i \in Events(p, "plot") : trace[p][i].n = e + 1 }
                        lines == EventsAt(p, "print_summary", e)
                    IN  /\ Cardinality(plots) <= 1
                        /\ Cardinality(lines) <= 1
                        /\ e < epoch[p] => Cardinality(plots) = 1 /\ Cardinality(lines) = 1
                        /\ e > epoch[p] => plots = {} /\ lines = {}

\* a run of two epochs is over, with a coordinator and another process
C4_Witness ==
    /\ AllDone
    /\ num_epochs = 2
    /\ \E p, q \in Procs : IsCoordinator(p) /\ ~IsCoordinator(q)

\* C5: every process calls train once in every epoch it has been through and
\* never twice, and in one epoch the loaders of any two processes have the
\* same number of batches, which is the number of steps a finished pass took.
C5_SameBatchCount ==
    \A p \in Procs :
        /\ \A e \in 0 .. MaxEpochs + 1 :
              /\ Cardinality(EventsAt(p, "train", e)) <= 1
              /\ e < epoch[p] => Cardinality(EventsAt(p, "train", e)) = 1
              /\ e >= num_epochs => EventsAt(p, "train", e) = {}
        /\ \A i \in Events(p, "train_end") :
              \A j \in EventsAt(p, "train", trace[p][i].epoch) :
                  trace[p][i].n = LoaderLen(trace[p][j].shard, batch_size)
        /\ \A q \in Procs : \A i \in Events(p, "train") : \A j \in Events(q, "train") :
              trace[p][i].epoch = trace[q][j].epoch =>
                  LoaderLen(trace[p][i].shard, batch_size) = LoaderLen(trace[q][j].shard, batch_size)

\* two processes have finished the same pass over a train split that the
\* process count does not divide
C5_Witness ==
    \E p, q \in Procs :
        /\ p # q
        /\ \E i \in Events(p, "train_end") : \E j \in Events(q, "train_end") :
              /\ trace[p][i].epoch = trace[q][j].epoch
              /\ trace[p][i].n >= 1
              /\ train_size % WorldSize # 0

\* process q has taken every training step of epoch e
PassComplete(q, e) ==
    \E j \in EventsAt(q, "train", e) :
        Cardinality(EventsAt(q, "step", e)) = LoaderLen(trace[q][j].shard, batch_size)

\* C6: when a process has begun the training pass of epoch e+1, every process
\* has taken all the training steps of epoch e, also while a coordinator is
\* still validating, plotting or saving epoch e.
C6_EpochAlignment ==
    \A p, q \in Procs : \A i \in Events(p, "train") :
        trace[p][i].epoch >= 1 => PassComplete(q, trace[p][i].epoch - 1)

\* a process that is not a coordinator is in the pass of epoch 1 while a
\* coordinator is still reporting epoch 0
C6_Witness ==
    \E p, q \in Procs :
        /\ ~IsCoordinator(p)
        /\ EventsAt(p, "train", 1) # {}
        /\ IsCoordinator(q)
        /\ epoch[q] = 0
        /\ pc[q] \in {"validate", "plot", "compare"}

\* C7: two processes at the same epoch boundary hold the same parameters, and
\* a snapshot a coordinator validated or saved equals the parameters of every
\* process that has taken as many steps.
C7_ReplicasIdentical ==
    /\ \A p, q \in Procs :
          pc[p] = "loop" /\ pc[q] = "loop" /\ epoch[p] = epoch[q] /\ epoch[p] >= 1
              => model[p] = model[q]
    /\ \A p, q \in Procs : \A i \in Idx(p) :
          /\ trace[p][i].ev \in {"validate", "save_best", "save_final"}
          /\ trace[p][i].epoch >= 1
          /\ trace[p][i].model.steps = model[q].steps
          => trace[p][i].model = model[q]

ShardSet(s) == { s[k] : k \in 1 .. Len(s) }

\* the shards of two different processes in the same epoch
SameEpochShards ==
    { <<trace[pi[1]][pi[2]].shard, trace[qj[1]][qj[2]].shard>> :
        <<pi, qj>> \in { pq \in
            (UNION { { <<p, i>> : i \in Events(p, "train") } : p \in Procs }) \X
            (UNION { { <<q, j>> : j \in Events(q, "train") } : q \in Procs }) :
                /\ pq[1][1] # pq[2][1]
                /\ trace[pq[1][1]][pq[1][2]].epoch = trace[pq[2][1]][pq[2][2]].epoch } }

\* C8 as stated: in one epoch the shards of two different processes share no
\* example and differ in size by at most one.
C8_DisjointShards ==
    \A ss \in SameEpochShards :
        /\ ShardSet(ss[1]) \cap ShardSet(ss[2]) = {}
        /\ Len(ss[1]) - Len(ss[2]) \in {-1, 0, 1}

\* C8 amended: every shard holds ceil(N / W) different examples of the split;
\* W shards of one epoch cover the split; two shards of one epoch are disjoint
\* when W divides N, and when it does not, some two of them share an example.
C8_PaddedShards ==
    /\ \A p \in Procs : \A i \in Events(p, "train") :
          LET s == trace[p][i].shard
          IN  /\ Len(s) = Ceil(train_size, WorldSize)
              /\ Cardinality(ShardSet(s)) = Len(s)
              /\ ShardSet(s) \subseteq 0 .. (train_size - 1)
    /\ train_size % WorldSize = 0 =>
          \A ss \in SameEpochShards : ShardSet(ss[1]) \cap ShardSet(ss[2]) = {}
    /\ \A e \in 0 .. MaxEpochs :
          (\A p \in Procs : EventsAt(p, "train", e) # {}) =>
              LET shards == { trace[p][i].shard : <<p, i>> \in
                                UNION { { <<q, j>> : j \in EventsAt(q, "train", e) } : q \in Procs } }
              IN  /\ UNION { ShardSet(s) : s \in shards } = 0 .. (train_size - 1)
                  /\ train_size % WorldSize # 0 =>
                        \E ss \in SameEpochShards : ShardSet(ss[1]) \cap ShardSet(ss[2]) # {}

\* two processes hold shards of one epoch of a split the process count does
\* not divide, and the shards share an example
C8_Witness ==
    /\ train_size % WorldSize # 0
    /\ \E ss \in SameEpochShards : ShardSet(ss[1]) \cap ShardSet(ss[2]) # {}

\* C9: with num_epochs = 0 no process trains, validates, plots or saves a best
\* checkpoint, best_val_loss stays +infinity, and a coordinator past the loop
\* has saved the untrained parameters as the final checkpoint exactly once,
\* before it tears the group down.
C9_ZeroEpochs ==
    num_epochs = 0 =>
        \A p \in Procs :
            /\ \A i \in Idx(p) : trace[p][i].ev \notin LoopKinds \cup {"raise"}
            /\ best_val_loss[p] = Inf
            /\ model[p].steps = 0
            /\ ~IsCoordinator(p) => Events(p, "save_final") = {}
            /\ IsCoordinator(p) /\ pc[p] \in {"cleanup", "done"} =>
                  /\ Cardinality(Events(p, "save_final")) = 1
                  /\ \A i \in Events(p, "save_final") : trace[p][i].model = model[p]
            /\ \A i \in Events(p, "destroy") : \A j \in Events(p, "save_final") : j < i
            /\ pc[p] = "done" => Cardinality(Events(p, "destroy")) = 1

\* a coordinator has finished a run of no epochs
C9_Witness ==
    /\ num_epochs = 0
    /\ \E p \in Procs : IsCoordinator(p) /\ pc[p] = "done"

\* C10, for one process: an exception is the last thing the process did; it
\* wrote no plot and no best checkpoint in the epoch of the exception, no final
\* checkpoint, did not tear the group down, and the run has not completed.
C10_State(p) ==
    \A i \in Events(p, "raise") :
        /\ i = Len(trace[p])
        /\ pc[p] = "aborted"
        /\ \A j \in Idx(p) :
              trace[p][j].ev \in {"plot", "save_best"} => trace[p][j].epoch < trace[p][i].epoch
        /\ Events(p, "save_final") = {}
        /\ Events(p, "destroy") = {}
        /\ ~AllDone

StepsTaken(p) == Cardinality(Events(p, "step"))

\* the training steps of one epoch and of the whole run, per process
StepsPerEpoch == Ceil(NumSamples(train_size, WorldSize), batch_size)

StepsOfRun == num_epochs * StepsPerEpoch

Crashed(p) == Events(p, "raise") # {}

\* C11 as stated: once a coordinator has crashed, no process that is not a
\* coordinator finishes the run and tears the group down.
C11_CrashHangsOthers ==
    [][\A c, q \in Procs :
          IsCoordinator(c) /\ Crashed(c) /\ ~IsCoordinator(q)
              => (pc'[q] \in {"cleanup", "done"} => pc[q] \in {"cleanup", "done"})]_vars

\* C11 amended: when a coordinator has crashed before taking the last training
\* step of the run, a process that is not a coordinator takes no step the
\* coordinator did not take, does not leave the epoch loop and does not tear
\* the group down.
C11_CrashBeforeLastStep ==
    \A c, q \in Procs :
        IsCoordinator(c) /\ Crashed(c) /\ StepsTaken(c) < StepsOfRun /\ ~IsCoordinator(q)
            => /\ pc[q] \notin {"cleanup", "done"}
               /\ StepsTaken(q) <= StepsTaken(c)
               /\ Events(q, "destroy") = {}

\* a coordinator has crashed while validating epoch 0 and another process
\* waits in the first all-reduce of epoch 1
C11_Witness ==
    \E c, q \in Procs :
        /\ IsCoordinator(c) /\ Crashed(c) /\ epoch[c] = 0
        /\ EventsAt(c, "train_end", 0) # {}
        /\ ~IsCoordinator(q) /\ epoch[q] = 1 /\ pc[q] = "allreduce"

\* C12, for one process: past the loop it has been through exactly num_epochs
\* iterations; it tears the group down at most once, exactly once when done;
\* a coordinator has saved the final checkpoint before it tears down.
C12_State(p) ==
    /\ pc[p] \in {"cleanup", "done"} =>
          /\ epoch[p] = num_epochs
          /\ Cardinality(Events(p, "set_epoch")) = num_epochs
          /\ Cardinality(Events(p, "train_end")) = num_epochs
    /\ Cardinality(Events(p, "destroy")) = (IF pc[p] = "done" THEN 1 ELSE 0)
    /\ IsCoordinator(p) =>
          \A i \in Events(p, "destroy") : \E j \in Events(p, "save_final") : j < i

\* C12: when nothing raises or hangs, every process leaves the loop after
\* exactly num_epochs iterations, eventually is done, and has torn the group
\* down exactly once, a coordinator only after its final save.
C12_Terminates ==
    /\ [](\A p \in Procs : C12_State(p))
    /\ <>AllDone

\* two processes have finished a run of two epochs
C12_Witness ==
    /\ AllDone
    /\ WorldSize = 2
    /\ \A p \in Procs : Cardinality(Events(p, "set_epoch")) = 2 /\ Events(p, "destroy") # {}

\* process p is at a reporting step: the summary line after validate, the
\* plot, the best-checkpoint comparison and save, or the final save
AtReportingStep(p) ==
    \/ pc[p] \in {"validate", "plot", "compare"}
    \/ pc[p] = "loop" /\ ~LoopContinues(epoch[p], num_epochs)

\* every training pass of a coordinator after the first started from the
\* parameters validated in the epoch before, and a saved checkpoint holds the
\* parameters the process held when it was saved
C13_State(p) ==
    /\ \A i \in Events(p, "train") : \A j \in Events(p, "validate") :
          trace[p][j].epoch + 1 = trace[p][i].epoch => trace[p][i].model = trace[p][j].model
    /\ \A i \in Events(p, "save_best") \cup Events(p, "save_final") :
          i = Len(trace[p]) => trace[p][i].model = model[p]

\* C13: no reporting step changes the parameters of the process, and the next
\* epoch trains from the parameters that were validated.
C13_ReportingFrame ==
    [][\A p \in Procs :
          /\ AtReportingStep(p) => model'[p] = model[p]
          /\ IsCoordinator(p) => C13_State(p)']_vars

\* a coordinator that saved the best checkpoint of epoch 0 has begun training
\* epoch 1
C13_Witness ==
    \E p \in Procs :
        /\ EventsAt(p, "save_best", 0) # {}
        /\ EventsAt(p, "plot", 0) # {}
        /\ EventsAt(p, "train", 1) # {}

IsSetEpoch(ev) == ev.ev = "set_epoch"

\* the epoch indices process p has passed to the sampler, in order
SetEpochHistory(p) == SelectSeq(trace[p], IsSetEpoch)

\* C14, for one process: the sampler has been given 0, 1, 2, ... in this
\* order, one index per epoch begun and all of 0..num_epochs-1 past the loop;
\* the index e was given before the train call of epoch e and after the
\* return of the train call of epoch e-1; while p trains, the sampler holds
\* the epoch of the loop.
C14_State(p) ==
    LET h == SetEpochHistory(p)
    IN  /\ \A k \in 1 .. Len(h) : h[k].n = k - 1
        /\ Len(h) = Cardinality(Events(p, "train"))
        /\ Len(h) <= num_epochs
        /\ pc[p] \in {"cleanup", "done"} => Len(h) = num_epochs
        /\ pc[p] \in {"train", "allreduce"} => sampler_epoch[p] = epoch[p]
        /\ \A i \in Events(p, "train") :
              \E j \in Events(p, "set_epoch") :
                  /\ trace[p][j].n = trace[p][i].epoch
                  /\ j < i
                  /\ \A t \in Events(p, "train_end") :
                        t < i => t < j /\ trace[p][t].epoch < trace[p][i].epoch

\* C14: every process re-seeds the train sampler once per epoch with the
\* epoch indices 0, 1, ..., in order, each before that epoch's train call and
\* after the previous one, and two processes pass the same indices.
C14_SetEpochOrder ==
    /\ \A p \in Procs : C14_State(p)
    /\ \A p, q \in Procs :
          LET hp == SetEpochHistory(p)
              hq == SetEpochHistory(q)
          IN  \A k \in 1 .. Len(hp) : k <= Len(hq) => hp[k].n = hq[k].n

\* two processes have both re-seeded the sampler for epoch 1
C14_Witness ==
    \E p, q \in Procs :
        /\ p # q
        /\ \E i \in Events(p, "set_epoch") : trace[p][i].n = 1
        /\ \E j \in Events(q, "set_epoch") : trace[q][j].n = 1

\* what a coordinator may do right after an event of each kind
Successors ==
    [set_epoch |-> {"print_training"},
     print_training |-> {"train"},
     train |-> {"step", "raise"},
     step |-> {"step", "train_end", "raise"},
     train_end |-> {"print_validation"},
     print_validation |-> {"validate", "raise"},
     validate |-> {"print_summary"},
     print_summary |-> {"plot"},
     plot |-> {"save_best", "set_epoch", "save_final"},
     save_best |-> {"set_epoch", "save_final"},
     save_final |-> {"destroy"},
     destroy |-> {},
     raise |-> {}]

\* C15, order: the events of a coordinator follow one another as train,
\* validate, summary, plot, comparison (with its conditional save), epoch after
\* epoch, and an event belongs to the epoch of the train call before it.
C15_Order(p) ==
    \A i \in 1 .. Len(trace[p]) - 1 :
        LET a == trace[p][i]
            b == trace[p][i + 1]
        IN  /\ b.ev \in Successors[a.ev]
            /\ b.ev = "set_epoch" => b.epoch = a.epoch + 1
            /\ b.ev \notin {"set_epoch", "save_final", "destroy"} => b.epoch = a.epoch

\* C15, data of epoch e: validate sees the parameters that the training steps
\* of e left; the plot draws the train and validation losses of e; a save of
\* e stores the parameters validated in e, whose loss was below every earlier
\* one; the comparison of e reads the validation loss of e.
C15_Data(p, e) ==
    /\ \A v \in EventsAt(p, "validate", e) : \A t \in EventsAt(p, "train", e) :
          /\ Cardinality(EventsAt(p, "step", e)) = LoaderLen(trace[p][t].shard, batch_size)
          /\ trace[p][v].model =
                [trace[p][t].model EXCEPT !.steps = @ + Cardinality(EventsAt(p, "step", e))]
    /\ \A i \in EventsAt(p, "plot", e) : trace[p][i].shard = <<e, e>>
    /\ \A i \in EventsAt(p, "save_best", e) : \A v \in EventsAt(p, "validate", e) :
          /\ trace[p][i].model = trace[p][v].model
          /\ trace[p][v].n < LowestSeen(ValHistory(p), e)
    /\ pc[p] = "compare" /\ epoch[p] = e =>
          \A v \in EventsAt(p, "validate", e) : val_loss[p] = trace[p][v].n
    /\ e < epoch[p] => EventsAt(p, "plot", e) # {}

\* C15: in every epoch a coordinator trains, validates, logs the summary,
\* plots and compares in this order, validating the parameters that epoch's
\* training left and plotting and comparing that epoch's losses.
C15_StepOrder ==
    \A p \in Procs : IsCoordinator(p) =>
        /\ C15_Order(p)
        /\ \A e \in 0 .. MaxEpochs : C15_Data(p, e)

\* a coordinator has plotted epoch 1 after saving the best checkpoint of epoch 0
C15_Witness ==
    \E p \in Procs :
        /\ IsCoordinator(p)
        /\ EventsAt(p, "save_best", 0) # {}
        /\ EventsAt(p, "plot", 1) # {}
        /\ pc[p] = "compare"

SetMax(S) == CHOOSE x \in S : \A y \in S : y <= x

\* C16, for one coordinator that has completed epoch[p] epochs: best_val_loss
\* is the lowest validation loss of these epochs (+infinity if there is none
\* below it); the best checkpoint exists iff that loss is below +infinity, and
\* its last write happened in the earliest epoch that reached the lowest loss
\* and stored the parameters validated at the end of that epoch.
C16_State(p) ==
    LET h == ValHistory(p)
        k == epoch[p]
        m == LowestSeen(h, k)
        saves == Events(p, "save_best")
    IN  /\ best_val_loss[p] = m
        /\ saves # {} <=> m < Inf
        /\ saves # {} =>
              LET last == trace[p][SetMax(saves)]
                  first == SetMin({ e \in 0 .. k - 1 : h[e + 1].n = m })
              IN  /\ last.epoch = first
                  /\ \A v \in EventsAt(p, "validate", first) : last.model = trace[p][v].model
                  /\ last.model.steps = (first + 1) * StepsPerEpoch

\* C16: on every coordinator the best checkpoint holds the parameters of the
\* end of the earliest epoch with the lowest validation loss, best_val_loss is
\* that loss, an equal later loss does not overwrite the file, and the file
\* exists iff some completed epoch had a loss below +infinity.
C16_BestIsEarliestMinimum ==
    \A p \in Procs : IsCoordinator(p) => C16_State(p)

\* a coordinator has completed two epochs with the same finite validation
\* loss and holds the checkpoint of the first
C16_Witness ==
    \E p \in Procs :
        /\ IsCoordinator(p)
        /\ epoch[p] = 2
        /\ Len(ValHistory(p)) = 2
        /\ ValHistory(p)[1].n = ValHistory(p)[2].n
        /\ ValHistory(p)[1].n < Inf
        /\ \E i \in Events(p, "save_best") : trace[p][i].epoch = 0
====
